---- MODULE Spec2Model ----
(***************************************************************************)
(* Keyframe timeline (src/js/core/timeline.js) and playback engine         *)
(* (src/unnamed/part_005) of the animation studio, with the application    *)
(* handlers that write timeline fields directly (src/js/app.js,            *)
(* src/js/core/project-exporter.js).                                       *)
(*                                                                         *)
(* Units.  Timeline times are integers counting 1/UnitsPerSec seconds, so  *)
(* the 0.01 s tolerance of addKeyframe is Tolerance = 3 units and one      *)
(* frame at 30 fps is 10 units.  performance.now() counts clock ticks of   *)
(* 1/(UnitsPerSec * ClockPerUnit) seconds and playback speeds are kept in  *)
(* tenths (10 is 1.0x), so every product and quotient of the playback      *)
(* arithmetic is an exact integer.                                         *)
(*                                                                         *)
(* The methods of Timeline that change tracks and keyframes are operators  *)
(* from the two maps (K: keyframes, T: tracks) and the arguments to the    *)
(* maps they leave and the value they return; the actions apply them to    *)
(* the variables.                                                          *)
(***************************************************************************)
EXTENDS Integers, Sequences, FiniteSets, TLC

UnitsPerSec == 300
Tolerance == 3
ClockPerUnit == 10
InitialDuration == 10 * UnitsPerSec
InitialFps == 30

\* Bound of the model: the keyframes of all objects together.
MaxKeyframes == 2

Objects == {"a", "b"}
TrackIds == {"track_1", "track_2"}
KfIds == 1..(MaxKeyframes + 1)
\* The property bags and the times keyframes are given: one time below 0, and
\* times within and beyond the tolerance of each other.
PropBags == [{"x"} -> {0, 1}]
KfTimes == {-1, 0, 2, 3}

VARIABLES
    duration,       \* Timeline.duration
    fps,            \* Timeline.fps
    currentTime,    \* Timeline.currentTime
    keyframes,      \* Timeline.keyframes : Map objectId -> array of keyframes
    tracks,         \* Timeline.tracks    : Map trackId -> track
    now,            \* performance.now(), in clock ticks
    eng,            \* the PlaybackEngine: isPlaying, isPaused, playbackStartTime,
                    \* animationFrameId (0: null), playbackSpeed, loop
    pending,        \* the requestAnimationFrame callbacks scheduled and not yet
                    \* run or cancelled
    loopResetAt,    \* the clock instant of the last loop reset while the origin
                    \* it set is still in use, else -1
    ex,             \* the exportFrames call in progress or last finished
    sampled,        \* the last getObjectStateAtTime call: its arguments and
                    \* what it returned
    exported,       \* the data the last exportTimelineData call returned, as it
                    \* is now, and which of its arrays and track objects are
                    \* still the timeline's own
    webm,           \* the exportToWebM call in progress or last finished
    notified        \* the currentTime carried by each playback:timeChanged
                    \* event the last step dispatched, in order

storeVars == <<keyframes, tracks>>
engineVars == <<now, eng, pending, loopResetAt>>
vars == <<duration, fps, currentTime, keyframes, tracks, now, eng, pending,
          loopResetAt, ex, sampled, exported, webm, notified>>

Abs(n) == IF n < 0 THEN -n ELSE n
Min(a, b) == IF a < b THEN a ELSE b
Max(a, b) == IF a > b THEN a ELSE b

----------------------------------------------------------------------------
(* Array helpers *)

\* Array.prototype.findIndex with the predicate of addKeyframe; 0 stands for -1.
FindIndexNear(arr, time) ==
    IF \E i \in 1..Len(arr) : Abs(arr[i].time - time) < Tolerance
    THEN CHOOSE i \in 1..Len(arr) :
            /\ Abs(arr[i].time - time) < Tolerance
            /\ \A j \in 1..(i - 1) : ~(Abs(arr[j].time - time) < Tolerance)
    ELSE 0

\* Array.prototype.findIndex(kf => kf.id === keyframeId); 0 stands for -1.
FindIndexById(arr, id) ==
    IF \E i \in 1..Len(arr) : arr[i].id = id
    THEN CHOOSE i \in 1..Len(arr) :
            arr[i].id = id /\ \A j \in 1..(i - 1) : arr[j].id # id
    ELSE 0

\* One insertion step of a stable sort by time: kf goes after every element
\* whose time is not greater.
RECURSIVE InsertByTime(_, _)
InsertByTime(sorted, kf) ==
    IF sorted = <<>> THEN <<kf>>
    ELSE IF sorted[Len(sorted)].time <= kf.time THEN Append(sorted, kf)
    ELSE Append(InsertByTime(SubSeq(sorted, 1, Len(sorted) - 1), kf),
                sorted[Len(sorted)])

\* keyframeArray.sort((a, b) => a.time - b.time): a stable sort of the whole array.
RECURSIVE SortByTime(_)
SortByTime(arr) ==
    IF arr = <<>> THEN <<>>
    ELSE InsertByTime(SortByTime(SubSeq(arr, 1, Len(arr) - 1)), arr[Len(arr)])

\* Variant of RemoveAt that drops the last element whatever the index: pop()
RemoveLast(arr, index) == SubSeq(arr, 1, Len(arr) - 1)

\* Array.prototype.splice(index, 1)
RemoveAt(arr, index) ==
    SubSeq(arr, 1, index - 1) \o SubSeq(arr, index + 1, Len(arr))

----------------------------------------------------------------------------
(* Timeline: tracks and keyframes *)

\* Map.prototype.delete
MapDelete(map, key) == [k \in (DOMAIN map) \ {key} |-> map[k]]

\* Map.prototype.set
MapSet(map, key, value) ==
    [k \in (DOMAIN map) \cup {key} |-> IF k = key THEN value ELSE map[k]]

\* getKeyframesForObject(objectId): this.keyframes.get(objectId) || []
getKeyframesForObject(K, objectId) ==
    IF objectId \in DOMAIN K THEN K[objectId] ELSE <<>>

\* getTrackByObjectId(objectId): the id of the first track of the object, or
\* "null".  (No path creates a second track for an object, so the first is
\* the only one.)
getTrackByObjectId(T, objectId) ==
    IF \E t \in DOMAIN T : T[t].objectId = objectId
    THEN CHOOSE t \in DOMAIN T : T[t].objectId = objectId
    ELSE "null"

\* generateTrackId(): an id no track of the map has.
generateTrackId(T) == CHOOSE t \in TrackIds : t \notin DOMAIN T

\* The ids of the keyframes held in the map.
UsedKfIds(K) == UNION {{K[o][i].id : i \in 1..Len(K[o])} : o \in DOMAIN K}

\* generateKeyframeId(): an id no keyframe of the map has.
generateKeyframeId(K) == CHOOSE k \in KfIds : k \notin UsedKfIds(K)

\* createTrack(objectId, name): the maps it leaves and the id of the new track.
createTrack(K, T, objectId) ==
    LET trackId == generateTrackId(T)
    IN  [tracks |-> MapSet(T, trackId, [objectId |-> objectId, keyframeCount |-> 0]),
         keyframes |-> IF objectId \in DOMAIN K THEN K ELSE MapSet(K, objectId, <<>>),
         track |-> trackId]

\* addKeyframe(objectId, time, properties): the maps it leaves and the keyframe
\* it returns.
addKeyframe(K, T, objectId, time, properties) ==
    LET found == getTrackByObjectId(T, objectId)
        created == createTrack(K, T, objectId)
        track == IF found # "null" THEN found ELSE created.track
        T1 == IF found # "null" THEN T ELSE created.tracks
        K1 == IF found # "null" THEN K ELSE created.keyframes
        keyframeArray == getKeyframesForObject(K1, objectId)
        existingIndex == FindIndexNear(keyframeArray, time)
        keyframe == [id |-> IF existingIndex # 0 THEN keyframeArray[existingIndex].id
                            ELSE generateKeyframeId(K),
                     time |-> time,
                     properties |-> properties,
                     easingType |-> "linear"]
        newArray == IF existingIndex # 0
                    THEN [keyframeArray EXCEPT ![existingIndex] = keyframe]
                    ELSE SortByTime(Append(keyframeArray, keyframe))
    IN  [keyframes |-> MapSet(K1, objectId, newArray),
         tracks |-> [T1 EXCEPT ![track].keyframeCount = Len(newArray)],
         keyframe |-> keyframe]

\* getKeyframe(keyframeId): the object whose array holds the id, "null" if none.
OwnerOf(K, keyframeId) ==
    IF \E o \in DOMAIN K : FindIndexById(K[o], keyframeId) # 0
    THEN CHOOSE o \in DOMAIN K : FindIndexById(K[o], keyframeId) # 0
    ELSE "null"

\* Object.assign(keyframe, updates) for the three fields callers update.
Assign(keyframe, updates) ==
    [id |-> keyframe.id,
     time |-> IF "time" \in DOMAIN updates THEN updates.time ELSE keyframe.time,
     properties |-> IF "properties" \in DOMAIN updates THEN updates.properties
                    ELSE keyframe.properties,
     easingType |-> IF "easingType" \in DOMAIN updates THEN updates.easingType
                    ELSE keyframe.easingType]

\* updateKeyframe(keyframeId, updates): the keyframes map it leaves.
updateKeyframe(K, keyframeId, updates) ==
    LET objectId == OwnerOf(K, keyframeId)
        keyframeArray == K[objectId]
        index == FindIndexById(keyframeArray, keyframeId)
        assigned == [keyframeArray EXCEPT ![index] = Assign(keyframeArray[index], updates)]
    IN  IF objectId = "null" THEN K
        ELSE MapSet(K, objectId,
                    IF "time" \in DOMAIN updates THEN SortByTime(assigned) ELSE assigned)

\* Variant of deleteKeyframe that leaves the track's keyframeCount as it was.
deleteKeyframeStaleCount(K, T, keyframeId) ==
    LET objectId == OwnerOf(K, keyframeId)
        keyframeArray == K[objectId]
        newArray == RemoveAt(keyframeArray, FindIndexById(keyframeArray, keyframeId))
    IN  IF objectId = "null"
        THEN [keyframes |-> K, tracks |-> T, result |-> FALSE, event |-> "none"]
        ELSE [keyframes |-> MapSet(K, objectId, newArray), tracks |-> T,
              result |-> TRUE, event |-> "timeline:keyframeDeleted"]

\* deleteKeyframe(keyframeId): the maps it leaves, the boolean it returns and
\* the event it dispatches ("none": no dispatch).
deleteKeyframe(K, T, keyframeId) ==
    LET objectId == OwnerOf(K, keyframeId)
        keyframeArray == K[objectId]
        newArray == RemoveAt(keyframeArray, FindIndexById(keyframeArray, keyframeId))
        track == getTrackByObjectId(T, objectId)
    IN  IF objectId = "null"
        THEN [keyframes |-> K, tracks |-> T, result |-> FALSE, event |-> "none"]
        ELSE [keyframes |-> MapSet(K, objectId, newArray),
              tracks |-> IF track = "null" THEN T
                         ELSE [T EXCEPT ![track].keyframeCount = Len(newArray)],
              result |-> TRUE, event |-> "timeline:keyframeDeleted"]

\* deleteTrack(trackId): the maps it leaves.
deleteTrack(K, T, trackId) ==
    IF trackId \in DOMAIN T
    THEN [keyframes |-> MapDelete(K, T[trackId].objectId),
          tracks |-> MapDelete(T, trackId)]
    ELSE [keyframes |-> K, tracks |-> T]

Updates == [time : KfTimes] \cup [properties : PropBags]

\* kf.time of the keyframe object with this id
TimeOf(K, keyframeId) ==
    LET objectId == OwnerOf(K, keyframeId)
    IN  K[objectId][FindIndexById(K[objectId], keyframeId)].time

\* scaleKeyframes(keyframes, scaleFactor, pivotTime): the keyframes map it
\* leaves; kfs lists the ids of the keyframe objects of its first argument, d
\* is this.duration.
RECURSIVE scaleKeyframes(_, _, _, _, _)
scaleKeyframes(K, d, kfs, scaleFactor, pivotTime) ==
    IF kfs = <<>> THEN K
    ELSE LET newTime == pivotTime + (TimeOf(K, Head(kfs)) - pivotTime) * scaleFactor
         IN  scaleKeyframes(updateKeyframe(K, Head(kfs),
                                           [time |-> Max(0, Min(d, newTime))]),
                            d, Tail(kfs), scaleFactor, pivotTime)

\* offsetKeyframes(keyframes, timeOffset): the keyframes map it leaves.
RECURSIVE offsetKeyframes(_, _, _, _)
offsetKeyframes(K, d, kfs, timeOffset) ==
    IF kfs = <<>> THEN K
    ELSE LET newTime == TimeOf(K, Head(kfs)) + timeOffset
         IN  offsetKeyframes(updateKeyframe(K, Head(kfs),
                                            [time |-> Max(0, Min(d, newTime))]),
                             d, Tail(kfs), timeOffset)

----------------------------------------------------------------------------
(* Timeline: interpolation.  A number the code computes with a division is  *)
(* kept as the fraction n/d with d > 0; d = 0 stands for undefined.         *)

Rat(n, d) == [n |-> n, d |-> d]
Undefined == Rat(0, 0)

\* { ...properties }: a copy of a keyframe's properties
CopyOf(properties) == [p \in DOMAIN properties |-> Rat(properties[p], 1)]

\* applyEasing(progress, easingType)
applyEasing(progress, easingType) ==
    LET n == progress.n
        d == progress.d
    IN  CASE easingType = "linear" -> progress
          [] easingType = "easeIn" -> Rat(n * n, d * d)
          [] easingType = "easeOut" -> Rat(d * d - (d - n) * (d - n), d * d)
          [] easingType = "easeInOut" ->
                IF 2 * n < d THEN Rat(2 * n * n, d * d)
                ELSE Rat(2 * d * d - (2 * d - 2 * n) * (2 * d - 2 * n), 2 * d * d)
          [] easingType = "bounce" ->
                IF 11 * n < 4 * d THEN Rat(121 * n * n, 16 * d * d)
                ELSE IF 11 * n < 8 * d
                THEN Rat((11 * n - 6 * d) * (11 * n - 6 * d) + 12 * d * d, 16 * d * d)
                ELSE IF 11 * n < 10 * d
                THEN Rat((11 * n - 9 * d) * (11 * n - 9 * d) + 15 * d * d, 16 * d * d)
                ELSE Rat((22 * n - 21 * d) * (22 * n - 21 * d) + 63 * d * d, 64 * d * d)
          [] OTHER -> progress

\* interpolateProperties(startProps, endProps, progress, easingType)
interpolateProperties(startProps, endProps, progress, easingType) ==
    LET easedProgress == applyEasing(progress, easingType)
    IN  [prop \in DOMAIN startProps \cup DOMAIN endProps |->
           IF prop \in DOMAIN startProps
           THEN IF prop \in DOMAIN endProps
                THEN Rat(startProps[prop] * easedProgress.d
                            + (endProps[prop] - startProps[prop]) * easedProgress.n,
                         easedProgress.d)
                ELSE IF 2 * easedProgress.n < easedProgress.d
                     THEN Rat(startProps[prop], 1)
                     ELSE Undefined
           ELSE Rat(endProps[prop], 1)]

\* getObjectStateAtTime(objectId, time): null, or the state it returns.
getObjectStateAtTime(K, objectId, time) ==
    LET keyframeArray == K[objectId]
        last == Len(keyframeArray)
        Surrounds(i) == keyframeArray[i].time <= time /\ keyframeArray[i + 1].time >= time
        i == CHOOSE j \in 1..(last - 1) :
                Surrounds(j) /\ \A k \in 1..(j - 1) : ~Surrounds(k)
        beforeKeyframe == keyframeArray[i]
        afterKeyframe == keyframeArray[i + 1]
        span == afterKeyframe.time - beforeKeyframe.time
        progress == IF span > 0 THEN Rat(time - beforeKeyframe.time, span) ELSE Rat(0, 1)
    IN  IF objectId \notin DOMAIN K \/ K[objectId] = <<>>
        THEN [null |-> TRUE, state |-> <<>>]
        ELSE IF time <= keyframeArray[1].time
        THEN [null |-> FALSE, state |-> CopyOf(keyframeArray[1].properties)]
        ELSE IF time >= keyframeArray[last].time
        THEN [null |-> FALSE, state |-> CopyOf(keyframeArray[last].properties)]
        ELSE IF ~\E j \in 1..(last - 1) : Surrounds(j)
        THEN [null |-> FALSE, state |-> CopyOf(keyframeArray[1].properties)]
        ELSE [null |-> FALSE,
              state |-> interpolateProperties(beforeKeyframe.properties,
                                              afterKeyframe.properties,
                                              progress, beforeKeyframe.easingType)]

\* The data an exportTimelineData call returned holds, next to copies of
\* duration and fps, the [key, value] pairs of the two maps; a value is the
\* keyframe array or the track object of the timeline itself, not a copy.
\* liveK and liveT are the keys whose value is still the one the timeline's
\* map holds, and data is what the returned data contains now.
NotExported == [taken |-> FALSE, liveK |-> {}, liveT |-> {},
                data |-> [duration |-> 0, fps |-> 0, tracks |-> <<>>, keyframes |-> <<>>]]

\* The returned data after a call that leaves the maps K and T, changing the
\* timeline's arrays and objects in place.
Shared(x, K, T) ==
    LET ks == x.data.keyframes
        ts == x.data.tracks
    IN  [x EXCEPT !.data.keyframes =
                      [i \in DOMAIN ks |-> IF ks[i][1] \in x.liveK
                                           THEN <<ks[i][1], K[ks[i][1]]>> ELSE ks[i]],
                  !.data.tracks =
                      [i \in DOMAIN ts |-> IF ts[i][1] \in x.liveT
                                           THEN <<ts[i][1], T[ts[i][1]]>> ELSE ts[i]]]

\* The returned data after the maps have let go of these arrays and tracks.
Detach(x, objectIds, trackIds) ==
    [x EXCEPT !.liveK = @ \ objectIds, !.liveT = @ \ trackIds]

AddKeyframe(objectId, time, properties) ==
    LET r == addKeyframe(keyframes, tracks, objectId, time, properties)
    IN  /\ FindIndexNear(getKeyframesForObject(keyframes, objectId), time) = 0
            => Cardinality(UsedKfIds(keyframes)) < MaxKeyframes
        /\ keyframes' = r.keyframes
        /\ tracks' = r.tracks
        /\ notified' = <<>>
        /\ exported' = Shared(exported, r.keyframes, r.tracks)
        /\ UNCHANGED <<sampled, webm, duration, fps, currentTime, engineVars, ex>>

UpdateKeyframe(keyframeId, updates) ==
    /\ keyframes' = updateKeyframe(keyframes, keyframeId, updates)
    /\ notified' = <<>>
    /\ exported' = Shared(exported, keyframes', tracks)
    /\ UNCHANGED <<sampled, webm, duration, fps, currentTime, tracks, engineVars, ex>>

DeleteKeyframe(keyframeId) ==
    LET r == deleteKeyframe(keyframes, tracks, keyframeId)
    IN  /\ keyframes' = r.keyframes
        /\ tracks' = r.tracks
        /\ notified' = <<>>
        /\ exported' = Shared(exported, r.keyframes, r.tracks)
        /\ UNCHANGED <<sampled, webm, duration, fps, currentTime, engineVars, ex>>

DeleteTrack(trackId) ==
    LET r == deleteTrack(keyframes, tracks, trackId)
    IN  /\ keyframes' = r.keyframes
        /\ tracks' = r.tracks
        /\ notified' = <<>>
        /\ exported' = Shared(Detach(exported,
                                 IF trackId \in DOMAIN tracks
                                 THEN {tracks[trackId].objectId} ELSE {},
                                 {trackId}),
                          r.keyframes, r.tracks)
        /\ UNCHANGED <<sampled, webm, duration, fps, currentTime, engineVars, ex>>

\* The keyframes of an object collected into a new array, as
\* getSelectedKeyframes does when all of them are selected: their ids.
KeyframeIdsOf(objectId) ==
    LET arr == getKeyframesForObject(keyframes, objectId)
    IN  [i \in 1..Len(arr) |-> arr[i].id]

\* Bulk moves are explored on objects whose keyframes lie at or below
\* MaxMovedTime.
MaxMovedTime == 4
Movable(objectId) ==
    LET arr == getKeyframesForObject(keyframes, objectId)
    IN  /\ arr # <<>>
        /\ \A i \in 1..Len(arr) : arr[i].time <= MaxMovedTime

ScaleKeyframes(objectId, scaleFactor, pivotTime) ==
    /\ Movable(objectId)
    /\ keyframes' = scaleKeyframes(keyframes, duration, KeyframeIdsOf(objectId),
                                   scaleFactor, pivotTime)
    /\ notified' = <<>>
    /\ exported' = Shared(exported, keyframes', tracks)
    /\ UNCHANGED <<sampled, webm, duration, fps, currentTime, tracks, engineVars, ex>>

OffsetKeyframes(objectId, timeOffset) ==
    /\ Movable(objectId)
    /\ keyframes' = offsetKeyframes(keyframes, duration, KeyframeIdsOf(objectId),
                                    timeOffset)
    /\ notified' = <<>>
    /\ exported' = Shared(exported, keyframes', tracks)
    /\ UNCHANGED <<sampled, webm, duration, fps, currentTime, tracks, engineVars, ex>>

NotSampled == [objectId |-> "none", time |-> 0,
               result |-> [null |-> TRUE, state |-> <<>>]]

\* A caller asks for the state of an object at a time.
GetObjectStateAtTime(objectId, time) ==
    /\ sampled' = [objectId |-> objectId, time |-> time,
                   result |-> getObjectStateAtTime(keyframes, objectId, time)]
    /\ notified' = <<>>
    /\ UNCHANGED <<webm, exported, duration, fps, currentTime, storeVars, engineVars, ex>>

----------------------------------------------------------------------------
(* Timeline: time *)

\* An exportFrames pass during which another operation changed the time or
\* the playback state is marked as disturbed.
Disturb(x) == IF x.pc = "await" THEN [x EXCEPT !.disturbed = TRUE] ELSE x

\* Math.max(0, Math.min(duration, time))
Clamp(d, time) == Max(0, Min(d, time))

\* Timeline.setCurrentTime(time)
SetCurrentTime(time) ==
    /\ currentTime' = Clamp(duration, time)
    /\ notified' = <<Clamp(duration, time)>>
    /\ ex' = Disturb(ex)
    /\ UNCHANGED <<sampled, webm, exported, duration, fps, keyframes, tracks, engineVars>>

\* 0.1 seconds, the least duration setDuration accepts
MinDuration == UnitsPerSec \div 10

\* Timeline.setDuration(duration)
SetDuration(d) ==
    /\ duration' = Max(MinDuration, d)
    /\ currentTime' = IF currentTime > Max(MinDuration, d)
                      THEN Clamp(Max(MinDuration, d), Max(MinDuration, d))
                      ELSE currentTime
    /\ notified' = IF currentTime > Max(MinDuration, d)
                   THEN <<Clamp(Max(MinDuration, d), Max(MinDuration, d))>>
                   ELSE <<>>
    /\ ex' = Disturb(ex)
    /\ UNCHANGED <<sampled, webm, exported, fps, keyframes, tracks, engineVars>>

\* The application's duration input: this.timeline.duration = parseFloat(value)
DurationControl(value) ==
    /\ duration' = value
    /\ ex' = Disturb(ex)
    /\ notified' = <<>>
    /\ UNCHANGED <<sampled, webm, exported, fps, currentTime, keyframes, tracks, engineVars>>

\* Timeline.clear()
Clear ==
    /\ tracks' = <<>>
    /\ keyframes' = <<>>
    /\ currentTime' = 0
    /\ ex' = Disturb(ex)
    /\ notified' = <<>>
    /\ exported' = Detach(exported, exported.liveK, exported.liveT)
    /\ UNCHANGED <<sampled, webm, duration, fps, engineVars>>

----------------------------------------------------------------------------
(* Timeline: export and import *)

\* Array.from(map.entries()): the [key, value] pairs of a map, one after another.
RECURSIVE Entries(_)
Entries(map) ==
    IF DOMAIN map = {} THEN <<>>
    ELSE LET k == CHOOSE key \in DOMAIN map : TRUE
         IN  <<(<<k, map[k]>>)>> \o Entries(MapDelete(map, k))

\* entries.forEach(([key, value]) => map.set(key, value)) on an emptied map
RECURSIVE FromEntries(_)
FromEntries(entries) ==
    IF entries = <<>> THEN <<>>
    ELSE LET last == entries[Len(entries)]
         IN  MapSet(FromEntries(SubSeq(entries, 1, Len(entries) - 1)), last[1], last[2])

\* exportTimelineData() of a timeline with these fields
exportTimelineData(d, f, K, T) ==
    [duration |-> d, fps |-> f, tracks |-> Entries(T), keyframes |-> Entries(K)]

\* Variant of importTimelineData that restores the tracks and leaves the
\* keyframe map cleared.
importTracksOnly(data) ==
    [duration |-> IF data.duration = 0 THEN InitialDuration ELSE data.duration,
     fps |-> IF data.fps = 0 THEN InitialFps ELSE data.fps,
     currentTime |-> 0,
     tracks |-> FromEntries(data.tracks),
     keyframes |-> <<>>]

\* importTimelineData(data): the fields of the timeline it leaves
importTimelineData(data) ==
    [duration |-> IF data.duration = 0 THEN InitialDuration ELSE data.duration,
     fps |-> IF data.fps = 0 THEN InitialFps ELSE data.fps,
     currentTime |-> 0,
     tracks |-> FromEntries(data.tracks),
     keyframes |-> FromEntries(data.keyframes)]

ImportTimelineData(data) ==
    LET t == importTimelineData(data)
    IN  /\ duration' = t.duration
        /\ fps' = t.fps
        /\ currentTime' = t.currentTime
        /\ tracks' = t.tracks
        /\ keyframes' = t.keyframes
        /\ ex' = Disturb(ex)
        /\ notified' = <<>>
        /\ exported' = Shared(exported, t.keyframes, t.tracks)
        /\ UNCHANGED <<sampled, webm, engineVars>>

\* A caller takes the timeline data and keeps it.
ExportTimelineData ==
    /\ exported' = [taken |-> TRUE, liveK |-> DOMAIN keyframes, liveT |-> DOMAIN tracks,
                    data |-> exportTimelineData(duration, fps, keyframes, tracks)]
    /\ notified' = <<>>
    /\ UNCHANGED <<sampled, webm, duration, fps, currentTime, storeVars, engineVars, ex>>

\* The timeline data is saved and loaded back.
Reload == ImportTimelineData(exportTimelineData(duration, fps, keyframes, tracks))

----------------------------------------------------------------------------
(* PlaybackEngine.  Its methods are operators on the record m of what they  *)
(* change: t (timeline.currentTime), e (the engine's fields), pending and   *)
(* loopResetAt; d is timeline.duration and n is performance.now().          *)

MinSpeed == 1
MaxSpeed == 50
RafIds == {1, 2, 3}

Machine == [t |-> currentTime, e |-> eng, pending |-> pending,
            loopResetAt |-> loopResetAt, notes |-> <<>>]

Apply(m) ==
    /\ currentTime' = m.t
    /\ eng' = m.e
    /\ pending' = m.pending
    /\ loopResetAt' = m.loopResetAt
    /\ notified' = m.notes

\* (currentTime - playbackStartTime) * playbackSpeed / 1000
Elapsed(e, n) == ((n - e.playbackStartTime) * e.playbackSpeed) \div (10 * ClockPerUnit)

\* performance.now() - (timeline.currentTime * 1000 / playbackSpeed)
Origin(n, t, speed) == n - ((t * 10 * ClockPerUnit) \div speed)

\* PlaybackEngine.setCurrentTime(time): clamps, then Timeline.setCurrentTime
engineSetCurrentTime(m, d, time) ==
    [m EXCEPT !.t = Clamp(d, Clamp(d, time)),
              !.notes = Append(@, Clamp(d, Clamp(d, time)))]

\* requestAnimationFrame(() => this.animationLoop()), its id kept in animationFrameId
requestAnimationFrame(m) ==
    LET id == CHOOSE i \in RafIds : i \notin m.pending \cup {m.e.animationFrameId}
    IN  [m EXCEPT !.e.animationFrameId = id, !.pending = @ \cup {id}]

stopAnimationLoop(m) ==
    IF m.e.animationFrameId # 0
    THEN [m EXCEPT !.pending = @ \ {m.e.animationFrameId}, !.e.animationFrameId = 0]
    ELSE m

\* Variant of stop that leaves the timeline where it is.
stopKeepTime(m, d) ==
    stopAnimationLoop([m EXCEPT !.e.isPlaying = FALSE, !.e.isPaused = FALSE,
                                !.loopResetAt = -1])

stop(m, d) ==
    engineSetCurrentTime(
        stopAnimationLoop([m EXCEPT !.e.isPlaying = FALSE, !.e.isPaused = FALSE,
                                    !.loopResetAt = -1]),
        d, 0)

\* Variant of pause that leaves the animation-frame request in place.
pauseNoCancel(m) ==
    IF ~m.e.isPlaying THEN m
    ELSE [m EXCEPT !.e.isPlaying = FALSE, !.e.isPaused = TRUE, !.loopResetAt = -1]

pause(m) ==
    IF ~m.e.isPlaying THEN m
    ELSE stopAnimationLoop([m EXCEPT !.e.isPlaying = FALSE, !.e.isPaused = TRUE,
                                     !.loopResetAt = -1])

\* Variant of animationLoop whose loop branch carries the overshoot over:
\* the origin is moved forward by one duration and the timeline is set to the
\* elapsed position minus the duration.
animationLoopCarry(m, d, n) ==
    IF ~m.e.isPlaying THEN m
    ELSE IF Elapsed(m.e, n) >= d
         THEN IF m.e.loop
              THEN requestAnimationFrame(
                       engineSetCurrentTime(
                           [m EXCEPT !.e.playbackStartTime =
                                         Origin(n, Elapsed(m.e, n) - d, m.e.playbackSpeed),
                                     !.loopResetAt = n],
                           d, Elapsed(m.e, n) - d))
              ELSE stop(engineSetCurrentTime(m, d, d), d)
         ELSE requestAnimationFrame(engineSetCurrentTime(m, d, Elapsed(m.e, n)))

animationLoop(m, d, n) ==
    IF ~m.e.isPlaying THEN m
    ELSE IF Elapsed(m.e, n) >= d
         THEN IF m.e.loop
              THEN requestAnimationFrame(
                       engineSetCurrentTime(
                           [m EXCEPT !.e.playbackStartTime = n, !.loopResetAt = n],
                           d, 0))
              ELSE stop(engineSetCurrentTime(m, d, d), d)
         ELSE requestAnimationFrame(engineSetCurrentTime(m, d, Elapsed(m.e, n)))

startAnimationLoop(m, d, n) ==
    animationLoop(IF m.e.animationFrameId # 0
                  THEN [m EXCEPT !.pending = @ \ {m.e.animationFrameId}]
                  ELSE m,
                  d, n)

\* Variant of play without the early return: it restarts playback when
\* called while Playing.
playRestart(m, d, n) ==
    startAnimationLoop(
        [m EXCEPT !.e.isPlaying = TRUE, !.e.isPaused = FALSE,
                  !.e.playbackStartTime = Origin(n, m.t, m.e.playbackSpeed),
                  !.loopResetAt = -1],
        d, n)

\* Variant of play that takes the clock instant itself for the origin,
\* whatever the position of the timeline.
playFromNow(m, d, n) ==
    IF m.e.isPlaying THEN m
    ELSE startAnimationLoop(
             [m EXCEPT !.e.isPlaying = TRUE, !.e.isPaused = FALSE,
                       !.e.playbackStartTime = n, !.loopResetAt = -1],
             d, n)

play(m, d, n) ==
    IF m.e.isPlaying THEN m
    ELSE startAnimationLoop(
             [m EXCEPT !.e.isPlaying = TRUE, !.e.isPaused = FALSE,
                       !.e.playbackStartTime = Origin(n, m.t, m.e.playbackSpeed),
                       !.loopResetAt = -1],
             d, n)

toggle(m, d, n) == IF m.e.isPlaying THEN pause(m) ELSE play(m, d, n)

\* Variant of setPlaybackSpeed that keeps the origin, as the setPlaybackSpeed
\* of src/js/core/playback.js does.
setPlaybackSpeedKeepOrigin(m, n, speed) ==
    [m EXCEPT !.e.playbackSpeed = Max(MinSpeed, Min(MaxSpeed, speed))]

setPlaybackSpeed(m, n, speed) ==
    LET clamped == Max(MinSpeed, Min(MaxSpeed, speed))
    IN  IF m.e.isPlaying
        THEN [m EXCEPT !.e.playbackSpeed = clamped,
                       !.e.playbackStartTime = Origin(n, m.t, clamped),
                       !.loopResetAt = -1]
        ELSE [m EXCEPT !.e.playbackSpeed = clamped]

Play ==
    /\ Apply(play(Machine, duration, now))
    /\ ex' = Disturb(ex)
    /\ UNCHANGED <<sampled, webm, exported, duration, fps, storeVars, now>>

Pause ==
    /\ Apply(pause(Machine))
    /\ ex' = Disturb(ex)
    /\ UNCHANGED <<sampled, webm, exported, duration, fps, storeVars, now>>

Stop ==
    /\ Apply(stop(Machine, duration))
    /\ ex' = Disturb(ex)
    /\ UNCHANGED <<sampled, webm, exported, duration, fps, storeVars, now>>

Toggle ==
    /\ Apply(toggle(Machine, duration, now))
    /\ ex' = Disturb(ex)
    /\ UNCHANGED <<sampled, webm, exported, duration, fps, storeVars, now>>

\* The scheduled animation-frame callback runs.
Tick(id) ==
    /\ id \in pending
    /\ Apply(animationLoop([Machine EXCEPT !.pending = @ \ {id}], duration, now))
    /\ ex' = Disturb(ex)
    /\ UNCHANGED <<sampled, webm, exported, duration, fps, storeVars, now>>

\* PlaybackEngine.setCurrentTime(time): rewind button, timeline click, scrubToTime
EngineSetCurrentTime(time) ==
    /\ Apply(engineSetCurrentTime(Machine, duration, time))
    /\ ex' = Disturb(ex)
    /\ UNCHANGED <<sampled, webm, exported, duration, fps, storeVars, now>>

\* Frame steps are explored within MaxStepTime of either end of the timeline.
MaxStepTime == 10
NearAnEnd == currentTime <= MaxStepTime \/ currentTime >= duration - MaxStepTime

StepForward ==
    /\ NearAnEnd
    /\ EngineSetCurrentTime(currentTime + (UnitsPerSec \div fps))

StepBackward ==
    /\ NearAnEnd
    /\ EngineSetCurrentTime(currentTime - (UnitsPerSec \div fps))

SetPlaybackSpeed(speed) ==
    /\ Apply(setPlaybackSpeed(Machine, now, speed))
    /\ ex' = Disturb(ex)
    /\ UNCHANGED <<sampled, webm, exported, duration, fps, storeVars, now>>

SetLoop(loop) ==
    /\ eng' = [eng EXCEPT !.loop = loop]
    /\ ex' = Disturb(ex)
    /\ notified' = <<>>
    /\ UNCHANGED <<sampled, webm, exported, duration, fps, currentTime, storeVars, now, pending, loopResetAt>>

\* ProjectExporter.clearProject()
ClearProject ==
    /\ tracks' = <<>>
    /\ keyframes' = <<>>
    /\ duration' = InitialDuration
    /\ Apply(IF eng.isPlaying THEN stop([Machine EXCEPT !.t = 0], InitialDuration)
             ELSE [Machine EXCEPT !.t = 0])
    /\ ex' = Disturb(ex)
    /\ exported' = Detach(exported, exported.liveK, exported.liveT)
    /\ UNCHANGED <<sampled, webm, fps, now>>

\* Clock time passes.
ClockStep == 5 * UnitsPerSec * ClockPerUnit
MaxAdvances == 3

Advance ==
    /\ now < MaxAdvances * ClockStep
    /\ now' = now + ClockStep
    /\ notified' = <<>>
    /\ UNCHANGED <<sampled, webm, exported, duration, fps, currentTime, storeVars, eng, pending, loopResetAt, ex>>

----------------------------------------------------------------------------
(* PlaybackEngine.exportFrames.  One step runs the function from its start, *)
(* or from the `await` it is suspended at, up to the next `await` or to its *)
(* end; fail says whether the iteration it runs raises an exception.        *)

\* Variant of Ceil that rounds down: Math.floor(a / b)
Floor(a, b) == a \div b

\* Math.ceil(a / b) for b > 0
Ceil(a, b) == -((-a) \div b)

NoExport == [pc |-> "idle", outcome |-> "none", wasPlaying |-> FALSE,
             originalTime |-> 0, startTime |-> 0, endTime |-> 0, fps |-> InitialFps,
             i |-> 0, frames |-> <<>>, disturbed |-> FALSE, cancel |-> FALSE]

\* The `finally` block and what follows it: the machine and the finished call.
exportFinish(m, x, d, n, outcome) ==
    LET restored == engineSetCurrentTime(m, d, x.originalTime)
    IN  [m |-> IF x.wasPlaying THEN play(restored, d, n) ELSE restored,
         x |-> [x EXCEPT !.pc = "idle", !.outcome = outcome,
                         !.frames = IF outcome = "returned" THEN @ ELSE <<>>]]

\* The loop from its test `i < totalFrames` to the `await` of iteration x.i.
exportIteration(m, x, d, n, fail) ==
    LET totalFrames == Ceil((x.endTime - x.startTime) * x.fps, UnitsPerSec)
        time == x.startTime + x.i * (UnitsPerSec \div x.fps)
        shown == engineSetCurrentTime(m, d, time)
    IN  IF ~(x.i < totalFrames) THEN exportFinish(m, x, d, n, "returned")
        ELSE IF fail THEN exportFinish(shown, x, d, n, "threw")
        ELSE [m |-> shown,
              x |-> [x EXCEPT !.pc = "await",
                              !.frames = Append(@, [time |-> time, frame |-> x.i,
                                                    data |-> shown.t, duration |-> d])]]

\* exportFrames({startTime, endTime, fps}) up to its first `await`
exportFrames(m, d, n, startTime, endTime, f, fail) ==
    exportIteration(IF m.e.isPlaying THEN pause(m) ELSE m,
                    [pc |-> "start", outcome |-> "none", wasPlaying |-> m.e.isPlaying,
                     originalTime |-> m.t, startTime |-> startTime,
                     endTime |-> endTime, fps |-> f, i |-> 0, frames |-> <<>>,
                     disturbed |-> FALSE, cancel |-> FALSE],
                    d, n, fail)

ExportFrames(startTime, endTime, f, fail) ==
    LET r == exportFrames(Machine, duration, now, startTime, endTime, f, fail)
    IN  /\ ex.pc = "idle"
        /\ Apply(r.m)
        /\ ex' = r.x
        /\ UNCHANGED <<sampled, webm, exported, duration, fps, storeVars, now>>

\* The timer of `await new Promise(resolve => setTimeout(resolve, 1))` fires.
ExportResume(fail) ==
    LET r == exportIteration(Machine, [ex EXCEPT !.i = @ + 1], duration, now, fail)
    IN  /\ ex.pc = "await"
        /\ Apply(r.m)
        /\ ex' = r.x
        /\ UNCHANGED <<sampled, webm, exported, duration, fps, storeVars, now>>

----------------------------------------------------------------------------
(* ProjectExporter.exportToWebM.  The recorder is started, playback is      *)
(* started from startTime, and checkProgress runs once at once and then in  *)
(* an animation-frame callback of its own until it sees the end time.       *)

NoWebM == [pc |-> "idle", recording |-> FALSE, originalTime |-> 0,
           wasPlaying |-> FALSE, endTime |-> 0]

\* checkProgress(): the machine and the call it leaves
checkProgress(m, w, d, n) ==
    LET restored == engineSetCurrentTime(pause(m), d, w.originalTime)
    IN  IF m.t >= w.endTime
        THEN [m |-> IF w.wasPlaying THEN play(restored, d, n) ELSE restored,
              w |-> [w EXCEPT !.pc = "done", !.recording = FALSE]]
        ELSE [m |-> m, w |-> [w EXCEPT !.pc = "polling"]]

\* exportToWebM({startTime, endTime}) up to the return of its first checkProgress
exportToWebM(m, d, n, startTime, endTime) ==
    checkProgress(play(engineSetCurrentTime(m, d, startTime), d, n),
                  [pc |-> "start", recording |-> TRUE, originalTime |-> m.t,
                   wasPlaying |-> m.e.isPlaying, endTime |-> endTime],
                  d, n)

\* exportToWebM is explored when it is not running already and the clock of
\* the model has the length of the timeline left to run.
ExportToWebM(startTime, endTime) ==
    LET r == exportToWebM(Machine, duration, now, startTime, endTime)
    IN  /\ webm.pc # "polling"
        /\ now + duration * ClockPerUnit <= MaxAdvances * ClockStep
        /\ Apply(r.m)
        /\ webm' = r.w
        /\ ex' = Disturb(ex)
        /\ UNCHANGED <<sampled, exported, duration, fps, storeVars, now>>

\* The animation-frame callback of checkProgress runs.
CheckProgress ==
    LET r == checkProgress(Machine, webm, duration, now)
    IN  /\ webm.pc = "polling"
        /\ Apply(r.m)
        /\ webm' = r.w
        /\ ex' = Disturb(ex)
        /\ UNCHANGED <<sampled, exported, duration, fps, storeVars, now>>

\* The caller of an exportFrames call that is suspended at its `await` raises
\* the flag it wants the export to stop on (a field of the options object it
\* passed); exportFrames has read startTime, endTime, fps and onProgress from
\* the options when it started and reads nothing from them afterwards.
RequestCancel ==
    /\ ex.pc = "await"
    /\ ~ex.cancel
    /\ ex' = [ex EXCEPT !.cancel = TRUE]
    /\ notified' = <<>>
    /\ UNCHANGED <<sampled, webm, exported, duration, fps, currentTime, storeVars, engineVars>>

----------------------------------------------------------------------------

\* The state after `new Timeline()` and `new PlaybackEngine(canvasEngine, timeline)`.
Init ==
    /\ duration = InitialDuration
    /\ fps = InitialFps
    /\ currentTime = 0
    /\ keyframes = <<>>
    /\ tracks = <<>>
    /\ now = 0
    /\ eng = [isPlaying |-> FALSE, isPaused |-> FALSE, playbackStartTime |-> 0,
              animationFrameId |-> 0, playbackSpeed |-> 10, loop |-> FALSE]
    /\ pending = {}
    /\ loopResetAt = -1
    /\ ex = NoExport
    /\ sampled = NotSampled
    /\ webm = NoWebM
    /\ exported = NotExported
    /\ notified = <<>>

ScrubTimes == {10}
SeekTimes == {-1, 10, InitialDuration + 1}
DurationInputs == {5 * UnitsPerSec}
SpeedInputs == {0, 10, 20, 60}
ExportRanges == {<<0, 25>>, <<InitialDuration - 10, InitialDuration + 15>>, <<10, 0>>}

NextAdd ==
    \E o \in Objects, t \in KfTimes, p \in PropBags : AddKeyframe(o, t, p)

\* Interpolation: one object, keyframes two units apart (within the tolerance
\* of their neighbours), bags with and without the property y, and queries
\* from before the first time to after the last.
InterpTimes == {0, 2, 4, 6}
InterpBags == {[x |-> 0], [x |-> 4], [x |-> 4, y |-> 1]}
Easings == {"linear", "easeIn"}
QueryTimes == -1..7

NextInterp ==
    \/ \E t \in InterpTimes, p \in InterpBags : AddKeyframe("a", t, p)
    \/ \E k \in KfIds, e \in Easings : UpdateKeyframe(k, [easingType |-> e])
    \/ \E t \in QueryTimes : GetObjectStateAtTime("a", t)

NextStore ==
    \/ NextAdd
    \/ \E k \in KfIds, u \in Updates : UpdateKeyframe(k, u)
    \/ \E k \in KfIds : DeleteKeyframe(k)
    \/ \E t \in TrackIds \cup Objects : DeleteTrack(t)
    \/ \E t \in ScrubTimes : SetCurrentTime(t)
    \/ Reload

NextClock ==
    \/ \E id \in RafIds : Tick(id)
    \/ Advance
    \/ Play
    \/ Pause
    \/ Stop
    \/ Toggle
    \/ \E t \in SeekTimes : EngineSetCurrentTime(t)
    \/ StepForward
    \/ StepBackward
    \/ \E s \in SpeedInputs : SetPlaybackSpeed(s)
    \/ \E b \in BOOLEAN : SetLoop(b)
    \/ \E t \in SeekTimes : SetCurrentTime(t)
    \/ \E d \in DurationInputs : SetDuration(d)
    \/ \E d \in DurationInputs : DurationControl(d)
    \/ Reload
    \/ Clear
    \/ ClearProject

NextExport ==
    \/ \E r \in ExportRanges, fail \in BOOLEAN : ExportFrames(r[1], r[2], InitialFps, fail)
    \/ \E fail \in BOOLEAN : ExportResume(fail)
    \/ RequestCancel
    \/ \E id \in RafIds : Tick(id)
    \/ Play
    \/ Pause
    \/ \E t \in SeekTimes : EngineSetCurrentTime(t)
    \/ \E d \in DurationInputs : DurationControl(d)

\* Moves of keyframes in time: single updates, offsets that stay in range and
\* offsets and scalings that run into the clamp at 0 or at the duration.
MoveTimes == {0, 3, 6}
TimeOffsets == {-4, 3, InitialDuration}
ScaleFactors == {-1, 2}
PivotTimes == {0}

NextMove ==
    \/ \E o \in Objects, t \in MoveTimes, p \in PropBags : AddKeyframe(o, t, p)
    \/ \E k \in KfIds, t \in MoveTimes : UpdateKeyframe(k, [time |-> t])
    \/ \E o \in Objects, off \in TimeOffsets : OffsetKeyframes(o, off)
    \/ \E o \in Objects, f \in ScaleFactors, p \in PivotTimes : ScaleKeyframes(o, f, p)

NextSnapshot ==
    \/ NextAdd
    \/ \E k \in KfIds, u \in Updates : UpdateKeyframe(k, u)
    \/ \E k \in KfIds : DeleteKeyframe(k)
    \/ ExportTimelineData

\* WebM export: the range by default (0 to the duration) and a range that
\* ends ten units in.  The controls are used before an export and between
\* exports; while one runs, frames fire and the clock advances.  Loop is left
\* off, so that playback comes to its end by itself.
WebMRanges == {<<0, InitialDuration>>, <<0, 10>>}

NextWebM ==
    \/ \E r \in WebMRanges : ExportToWebM(r[1], r[2])
    \/ CheckProgress
    \/ \E id \in RafIds : Tick(id)
    \/ Advance
    \/ webm.pc # "polling" /\ Play
    \/ webm.pc # "polling" /\ Pause
    \/ webm.pc # "polling" /\ \E t \in SeekTimes : EngineSetCurrentTime(t)

Next ==
    \/ NextStore \/ NextClock \/ NextExport \/ NextInterp \/ NextMove \/ NextWebM
    \/ NextSnapshot

\* Only addKeyframe is ever called.
SpecAdd == Init /\ [][NextAdd]_vars

\* The keyframe store: addKeyframe, updateKeyframe, deleteKeyframe, deleteTrack,
\* with seeks and reloads of the timeline data.
SpecInterp == Init /\ [][NextInterp]_vars

SpecStore == Init /\ [][NextStore]_vars

\* The keyframe store with a caller that keeps the data exportTimelineData
\* returned.
SpecSnapshot == Init /\ [][NextSnapshot]_vars

\* Keyframes added and moved in time.
SpecMove == Init /\ [][NextMove]_vars

\* The timeline's time and the playback clock.
SpecClock == Init /\ [][NextClock]_vars

\* Frame export, with the operations that set up the state it starts from.
SpecExport == Init /\ [][NextExport]_vars

\* WebM export, with animation frames that keep firing and a clock that
\* keeps advancing.
SpecWebM ==
    /\ Init
    /\ [][NextWebM]_vars
    /\ WF_vars(\E id \in RafIds : Tick(id))
    /\ WF_vars(Advance)
    /\ WF_vars(CheckProgress)

Spec == Init /\ [][Next]_vars

----------------------------------------------------------------------------
(* Claims *)

AllKeyframes == UNION {{keyframes[o][i] : i \in 1..Len(keyframes[o])} : o \in DOMAIN keyframes}

\* C1: addKeyframe(objectId, t, p1) followed by addKeyframe(objectId, t, p2)
\* leaves exactly one keyframe of the object within the tolerance of t; it
\* holds p2 and has the id the first call returned.
C1_IdempotentOverwrite ==
    \A o \in Objects, t \in KfTimes, p1 \in PropBags, p2 \in PropBags :
        LET r1 == addKeyframe(keyframes, tracks, o, t, p1)
            r2 == addKeyframe(r1.keyframes, r1.tracks, o, t, p2)
            arr == r2.keyframes[o]
            near == {i \in 1..Len(arr) : Abs(arr[i].time - t) < Tolerance}
        IN  /\ Cardinality(near) = 1
            /\ \A i \in near : /\ arr[i].properties = p2
                               /\ arr[i].id = r1.keyframe.id
                               /\ r2.keyframe.id = r1.keyframe.id

\* C2: after any sequence of addKeyframe calls, the keyframes of every object
\* are in strictly ascending time order.
C2_StrictlyAscending ==
    \A o \in Objects :
        LET arr == getKeyframesForObject(keyframes, o)
        IN  \A i \in 1..(Len(arr) - 1) : arr[i].time < arr[i + 1].time

\* C3: after any sequence of addKeyframe calls, two distinct keyframes of one
\* object are at least the tolerance apart.
C3_NoTwoWithinTolerance ==
    \A o \in Objects :
        LET arr == getKeyframesForObject(keyframes, o)
        IN  \A i \in 1..Len(arr), j \in 1..Len(arr) :
                i # j => Abs(arr[i].time - arr[j].time) >= Tolerance

\* C4: in every reachable state 0 <= currentTime <= duration.
C4_CurrentTimeInRange == 0 <= currentTime /\ currentTime <= duration

\* C5: a tick that runs while playing with loop disabled and computes an
\* elapsed position >= duration leaves the clock Stopped, with no tick
\* scheduled, and currentTime equal to duration.
C5_TickAtEndStopsAtDuration ==
    [][\A id \in RafIds :
         (Tick(id) /\ eng.isPlaying /\ ~eng.loop /\ Elapsed(eng, now) >= duration)
         => /\ ~eng'.isPlaying
            /\ ~eng'.isPaused
            /\ pending' = {}
            /\ currentTime' = duration]_vars

\* C6: a tick that runs while playing with loop enabled and computes an
\* elapsed position >= duration sets currentTime to 0, sets the playback origin
\* to the tick's clock instant, stays Playing and schedules the next tick; a
\* later tick below the duration sets currentTime to the time elapsed since
\* that instant times the speed.
C6_LoopResetsToZero ==
    [][\A id \in RafIds :
         (Tick(id) /\ eng.isPlaying)
         => /\ (eng.loop /\ Elapsed(eng, now) >= duration)
                => /\ currentTime' = 0
                   /\ eng'.playbackStartTime = now
                   /\ eng'.isPlaying /\ ~eng'.isPaused
                   /\ pending' = {eng'.animationFrameId}
            /\ (loopResetAt >= 0 /\ Elapsed(eng, now) < duration)
                => currentTime' =
                     ((now - loopResetAt) * eng.playbackSpeed) \div (10 * ClockPerUnit)]_vars

\* C6 witness: playback looped at an earlier instant and a later tick has
\* moved the timeline to the time elapsed since then.
C6_Witness ==
    /\ eng.isPlaying /\ eng.loop
    /\ loopResetAt >= 0 /\ now > loopResetAt
    /\ eng.playbackStartTime = loopResetAt
    /\ currentTime > 0
    /\ currentTime = ((now - loopResetAt) * eng.playbackSpeed) \div (10 * ClockPerUnit)

ExportStep ==
    \/ \E r \in ExportRanges, fail \in BOOLEAN : ExportFrames(r[1], r[2], InitialFps, fail)
    \/ \E fail \in BOOLEAN : ExportResume(fail)

\* C7: when exportFrames finishes, by returning or by an exception, and no
\* other operation ran during the pass, currentTime and isPlaying have the
\* values they had when it started.
C7_ExportRestoresState ==
    [][(ExportStep /\ ex'.pc = "idle" /\ ~ex'.disturbed)
        => /\ currentTime' = ex'.originalTime
           /\ eng'.isPlaying = ex'.wasPlaying]_vars

FrameTimeAt(x, i) == x.startTime + (i - 1) * (UnitsPerSec \div x.fps)

\* C8 as claimed: exportFrames returns exactly ceil((endTime - startTime) * fps)
\* records, with frame indexes 0, 1, 2, ..., times startTime + i/fps, each
\* captured with the timeline set to that time.
C8_FramesAsClaimed ==
    (ex.pc = "idle" /\ ex.outcome = "returned")
    => LET span == (ex.endTime - ex.startTime) * ex.fps
           n == Len(ex.frames)
       IN  /\ (n - 1) * UnitsPerSec < span /\ span <= n * UnitsPerSec
           /\ \A i \in 1..n :
                /\ ex.frames[i].frame = i - 1
                /\ ex.frames[i].time = FrameTimeAt(ex, i)
                /\ ex.frames[i].data = ex.frames[i].time

\* C8 amended: exportFrames returns exactly max(0, ceil((endTime - startTime)
\* * fps)) records, with frame indexes 0, 1, 2, ..., times startTime + i/fps,
\* each captured with the timeline set to that time clamped into [0, duration].
C8_FramesClamped ==
    (ex.pc = "idle" /\ ex.outcome = "returned")
    => LET span == (ex.endTime - ex.startTime) * ex.fps
           n == Len(ex.frames)
       IN  /\ IF span <= 0 THEN n = 0
              ELSE (n - 1) * UnitsPerSec < span /\ span <= n * UnitsPerSec
           /\ \A i \in 1..n :
                /\ ex.frames[i].frame = i - 1
                /\ ex.frames[i].time = FrameTimeAt(ex, i)
                /\ ex.frames[i].data =
                       Max(0, Min(ex.frames[i].duration, ex.frames[i].time))

\* C8 witness: an export has returned three frames, the last one beyond the
\* duration and captured at the duration.
C8_Witness ==
    /\ ex.pc = "idle" /\ ex.outcome = "returned"
    /\ Len(ex.frames) = 3
    /\ ex.frames[3].time > ex.frames[3].duration
    /\ ex.frames[3].data = ex.frames[3].duration

\* C9: importTimelineData(exportTimelineData()) leaves the duration, the fps,
\* the tracks and the keyframes of every object as they were and sets
\* currentTime to 0.
C9_RoundTrip ==
    [][Reload => /\ duration' = duration
                 /\ fps' = fps
                 /\ tracks' = tracks
                 /\ keyframes' = keyframes
                 /\ currentTime' = 0]_vars

\* C9 witness: both objects have a track and a keyframe, the playhead is away
\* from 0, and loading the saved data back gives the same tracks and keyframes
\* with the playhead at 0.
C9_Witness ==
    /\ DOMAIN keyframes = Objects
    /\ \A o \in Objects : Len(keyframes[o]) >= 1 /\ getTrackByObjectId(tracks, o) # "null"
    /\ currentTime # 0
    /\ LET t == importTimelineData(exportTimelineData(duration, fps, keyframes, tracks))
       IN  t.keyframes = keyframes /\ t.tracks = tracks /\ t.currentTime = 0

DeleteKeyframeResult ==
    \A id \in KfIds :
        LET r == deleteKeyframe(keyframes, tracks, id)
            Other(kf) == kf.id # id
        IN  IF id \notin UsedKfIds(keyframes)
            THEN /\ r.result = FALSE
                 /\ r.event = "none"
                 /\ r.keyframes = keyframes
                 /\ r.tracks = tracks
            ELSE /\ r.result = TRUE
                 /\ DOMAIN r.keyframes = DOMAIN keyframes
                 /\ \A o \in DOMAIN keyframes :
                        r.keyframes[o] = SelectSeq(keyframes[o], Other)
                 /\ Cardinality(UsedKfIds(r.keyframes)) =
                        Cardinality(UsedKfIds(keyframes)) - 1
                 /\ deleteKeyframe(r.keyframes, r.tracks, id).result = FALSE

\* C11: deleteKeyframe(id) with an id no keyframe has returns false, dispatches
\* no event and leaves keyframes, tracks and currentTime as they were; with an
\* id that exists it returns true, removes that keyframe alone, the others
\* keeping their order, and a second deleteKeyframe(id) returns false.
C11_DeleteKeyframe ==
    /\ []DeleteKeyframeResult
    /\ [][\A id \in KfIds :
            DeleteKeyframe(id)
            => LET r == deleteKeyframe(keyframes, tracks, id)
               IN  /\ keyframes' = r.keyframes
                   /\ tracks' = r.tracks
                   /\ currentTime' = currentTime]_vars

\* C11 witness: the only keyframe of one object has been deleted (its array is
\* empty and its track is kept), another object still has a keyframe, and
\* deleting an id that no keyframe has returns false.
C11_Witness ==
    /\ \E o \in DOMAIN keyframes : keyframes[o] = <<>>
    /\ \E o \in DOMAIN keyframes : Len(keyframes[o]) >= 1
    /\ \E id \in KfIds \ UsedKfIds(keyframes) :
          deleteKeyframe(keyframes, tracks, id).result = FALSE

\* The tracks that refer to an object.
TracksOf(objectId) == {t \in DOMAIN tracks : tracks[t].objectId = objectId}

\* C12: every object that has at least one keyframe has exactly one track, and
\* that track's keyframeCount is the number of keyframes stored for the object.
C12_OneTrackWithCount ==
    \A o \in Objects :
        Len(getKeyframesForObject(keyframes, o)) >= 1
        => /\ Cardinality(TracksOf(o)) = 1
           /\ \A t \in TracksOf(o) : tracks[t].keyframeCount = Len(keyframes[o])

\* C12 witness: an object has received two keyframes and has one track, which
\* counts two.
C12_Witness ==
    \E o \in Objects :
        /\ Len(getKeyframesForObject(keyframes, o)) = 2
        /\ Cardinality(TracksOf(o)) = 1
        /\ \A t \in TracksOf(o) : tracks[t].keyframeCount = 2

\* C13: deleteTrack called with the object id of an object that has keyframes
\* leaves no keyframes and no track for that object, and leaves the tracks and
\* keyframes of every other object as they were.
C13_DeleteTrackByObjectId ==
    \A o \in Objects :
        Len(getKeyframesForObject(keyframes, o)) >= 1
        => LET r == deleteTrack(keyframes, tracks, o)
           IN  /\ getKeyframesForObject(r.keyframes, o) = <<>>
               /\ \A t \in DOMAIN r.tracks : r.tracks[t].objectId # o
               /\ \A p \in Objects \ {o} :
                     getKeyframesForObject(r.keyframes, p) =
                        getKeyframesForObject(keyframes, p)
               /\ \A t \in DOMAIN tracks :
                     tracks[t].objectId # o
                     => t \in DOMAIN r.tracks /\ r.tracks[t] = tracks[t]

\* The keyframes of an object at a given time.
KeyframesAt(objectId, time) ==
    LET arr == getKeyframesForObject(keyframes, objectId)
    IN  {arr[i] : i \in {j \in 1..Len(arr) : arr[j].time = time}}

KeyframeTimes(objectId) ==
    LET arr == getKeyframesForObject(keyframes, objectId)
    IN  {arr[i].time : i \in 1..Len(arr)}

\* The value n/d equals start + (end - start) * en/ed.
IsInterpolated(v, start, end, en, ed) ==
    v.d > 0 /\ v.n * ed = (start * ed + (end - start) * en) * v.d

\* C14: for keyframes a and b of an object adjacent in time and a query time t
\* with a.time < t < b.time, getObjectStateAtTime gives every property of both
\* keyframes the value a.value + (b.value - a.value) * ease(progress), where
\* progress = (t - a.time) / (b.time - a.time) and ease is a's easing: progress
\* itself for linear and progress squared for easeIn.
C14_Interpolates ==
    \A t \in QueryTimes, ta \in KeyframeTimes("a"), tb \in KeyframeTimes("a") :
        (/\ ta < t /\ t < tb
         /\ \A tk \in KeyframeTimes("a") : ~(ta < tk /\ tk < tb))
        => LET r == getObjectStateAtTime(keyframes, "a", t)
               n == t - ta
               d == tb - ta
           IN  /\ ~r.null
               /\ \E a \in KeyframesAt("a", ta), b \in KeyframesAt("a", tb) :
                     \A prop \in DOMAIN a.properties \cap DOMAIN b.properties :
                        /\ prop \in DOMAIN r.state
                        /\ a.easingType = "linear"
                             => IsInterpolated(r.state[prop], a.properties[prop],
                                               b.properties[prop], n, d)
                        /\ a.easingType = "easeIn"
                             => IsInterpolated(r.state[prop], a.properties[prop],
                                               b.properties[prop], n * n, d * d)

\* C15: for an object with at least one keyframe, a query at or before the
\* earliest keyframe time returns the property values of a keyframe at that
\* time, and a query at or after the latest keyframe time returns the property
\* values of a keyframe at that time.
C15_HoldsOutsideRange ==
    \A t \in QueryTimes, tk \in KeyframeTimes("a") :
        LET r == getObjectStateAtTime(keyframes, "a", t)
            Held == \E kf \in KeyframesAt("a", tk) :
                       ~r.null /\ r.state = CopyOf(kf.properties)
        IN  /\ (t <= tk /\ \A other \in KeyframeTimes("a") : tk <= other) => Held
            /\ (t >= tk /\ \A other \in KeyframeTimes("a") : tk >= other) => Held

\* C16: between keyframes a and b adjacent in time, a property that only the
\* later keyframe b has is absent from the state returned for every time
\* strictly between a.time and b.time.
C16_EndOnlyPropertyOmitted ==
    \A t \in QueryTimes, ta \in KeyframeTimes("a"), tb \in KeyframeTimes("a") :
        (/\ ta < t /\ t < tb
         /\ \A tk \in KeyframeTimes("a") : ~(ta < tk /\ tk < tb))
        => LET r == getObjectStateAtTime(keyframes, "a", t)
           IN  \E a \in KeyframesAt("a", ta), b \in KeyframesAt("a", tb) :
                  \A prop \in DOMAIN b.properties \ DOMAIN a.properties :
                     ~r.null /\ prop \notin DOMAIN r.state

\* C17: pause() while Playing leaves the clock Paused, currentTime as it was
\* and no tick scheduled; a tick that runs while Paused leaves currentTime as
\* it was.
C17_PauseKeepsTime ==
    [][/\ (Pause /\ eng.isPlaying)
          => /\ eng'.isPaused /\ ~eng'.isPlaying
             /\ currentTime' = currentTime
             /\ pending' = {}
       /\ \A id \in RafIds :
            (Tick(id) /\ eng.isPaused) => currentTime' = currentTime]_vars

\* C17 witness: playback has advanced the timeline and is Paused away from 0,
\* with no tick scheduled.
C17_Witness ==
    /\ eng.isPaused /\ ~eng.isPlaying
    /\ currentTime > 0 /\ currentTime = Elapsed(eng, now)
    /\ pending = {}

\* C18: stop() called in any clock state leaves the clock Stopped, with
\* currentTime 0 and no tick scheduled.
C18_StopResets ==
    LET m == stop(Machine, duration)
    IN  /\ ~m.e.isPlaying /\ ~m.e.isPaused
        /\ m.t = 0
        /\ m.pending = {}

\* C18 witness: playback was started after the clock instant 0 and has been
\* stopped: the clock is Stopped at 0 with no tick scheduled.
C18_Witness ==
    /\ ~eng.isPlaying /\ ~eng.isPaused
    /\ eng.playbackStartTime # 0
    /\ currentTime = 0
    /\ pending = {}

\* The clock time after which a later tick is looked at: one second and one
\* clock step.
TickDelays == {UnitsPerSec * ClockPerUnit, ClockStep}

\* Timeline time covered in dt of clock time at a speed.
Covered(dt, speed) == (dt * speed) \div (10 * ClockPerUnit)

C20_PlayMapsClockToTime ==
    (~eng.isPlaying /\ currentTime < duration)
    => LET m == play(Machine, duration, now)
       IN  /\ m.e.isPlaying /\ m.t = currentTime
           /\ \A dt \in TickDelays :
                 currentTime + Covered(dt, eng.playbackSpeed) < duration
                 => animationLoop(m, duration, now + dt).t =
                       currentTime + Covered(dt, eng.playbackSpeed)

\* C20 witness: play() was called one clock step after 0 with the timeline at
\* 10 units, and a tick one clock step later has set currentTime to 10 units
\* plus the time covered in a clock step.
C20_Witness ==
    /\ eng.isPlaying
    /\ eng.playbackStartTime = Origin(ClockStep, 10, eng.playbackSpeed)
    /\ now = 2 * ClockStep
    /\ currentTime = 10 + Covered(ClockStep, eng.playbackSpeed)
    /\ currentTime < duration

\* C21: every step that changes timeline.currentTime dispatches a timeChanged
\* notification, and the last one it dispatches carries the new currentTime;
\* no operation (play, pause, stop, scrub, tick, import, clear, project reset)
\* changes currentTime without it.
C21_EveryChangeNotified ==
    [][currentTime' # currentTime
        => /\ notified' # <<>>
           /\ notified'[Len(notified')] = currentTime']_vars

\* C22: when the caller's cancellation flag is set while exportFrames is
\* suspended between two frames, the next iteration captures no frame: the
\* export ends there with a cancellation result that is neither its normal
\* return nor an exception, its partial output discarded, and, no other
\* operation having run during the pass, currentTime and the playback state
\* as they were when it started.
C22_CancelStopsExport ==
    [][\A fail \in BOOLEAN :
         (ExportResume(fail) /\ ex.cancel)
         => /\ ex'.pc = "idle"
            /\ ex'.outcome \notin {"returned", "threw"}
            /\ ex'.frames = <<>>
            /\ ~ex'.disturbed
                 => /\ currentTime' = ex'.originalTime
                    /\ eng'.isPlaying = ex'.wasPlaying]_vars

\* The names of the properties keyframes are given.
InterpProps == UNION {DOMAIN bag : bag \in InterpBags}

\* The keyframes of an object that define a property.
Defining(objectId, prop) ==
    LET arr == getKeyframesForObject(keyframes, objectId)
    IN  {arr[i] : i \in {j \in 1..Len(arr) : prop \in DOMAIN arr[j].properties}}

\* The value n/d equals the number c.
IsValue(v, c) == v.d > 0 /\ v.n = c * v.d

\* C23: the value of a property p at time t comes from the keyframes that
\* define p alone: before the first of them and after the last of them the
\* value of that keyframe is held, and in between it is interpolated between
\* the nearest keyframe defining p at or before t and the nearest one defining
\* p at or after t, with the easing of the earlier one.
C23_PerPropertyBracket ==
    \A t \in QueryTimes, prop \in InterpProps :
        LET D == Defining("a", prop)
            r == getObjectStateAtTime(keyframes, "a", t)
            Before == {kf \in D : kf.time <= t /\ \A o \in D : o.time <= t => o.time <= kf.time}
            After == {kf \in D : kf.time >= t /\ \A o \in D : o.time >= t => o.time >= kf.time}
        IN  D # {}
            => /\ ~r.null
               /\ prop \in DOMAIN r.state
               /\ IF Before = {}
                  THEN \E b \in After : IsValue(r.state[prop], b.properties[prop])
                  ELSE IF After = {}
                  THEN \E a \in Before : IsValue(r.state[prop], a.properties[prop])
                  ELSE \E a \in Before, b \in After :
                          IF a.time = b.time
                          THEN IsValue(r.state[prop], a.properties[prop])
                          ELSE LET n == t - a.time
                                   d == b.time - a.time
                               IN  IF a.easingType = "easeIn"
                                   THEN IsInterpolated(r.state[prop], a.properties[prop],
                                                       b.properties[prop], n * n, d * d)
                                   ELSE IsInterpolated(r.state[prop], a.properties[prop],
                                                       b.properties[prop], n, d)

\* C24: in the state a deleteKeyframe call leaves, no track exists whose object
\* has no keyframe: every track's object has a non-empty keyframe list and
\* every track's keyframeCount is above 0.
C24_NoEmptyTrackAfterDelete ==
    [][\A id \in KfIds :
         DeleteKeyframe(id)
         => \A t \in DOMAIN tracks' :
               /\ Len(getKeyframesForObject(keyframes', tracks'[t].objectId)) >= 1
               /\ tracks'[t].keyframeCount >= 1]_vars

StrictlyAscending(K) ==
    \A o \in DOMAIN K :
        \A i \in 1..(Len(K[o]) - 1) : K[o][i].time < K[o][i + 1].time

\* An updateKeyframe with a new time, an offsetKeyframes or a scaleKeyframes call.
MoveStep ==
    \/ \E k \in KfIds, t \in MoveTimes : UpdateKeyframe(k, [time |-> t])
    \/ \E o \in Objects, off \in TimeOffsets : OffsetKeyframes(o, off)
    \/ \E o \in Objects, f \in ScaleFactors, p \in PivotTimes : ScaleKeyframes(o, f, p)

\* C25: an updateKeyframe with a new time, an offsetKeyframes or a
\* scaleKeyframes call made when the keyframes of every object are in strictly
\* ascending time order leaves them in strictly ascending time order, also
\* when it clamps new times to 0 or to the duration.
C25_MovesKeepOrder ==
    [][(MoveStep /\ StrictlyAscending(keyframes)) => StrictlyAscending(keyframes')]_vars

\* C26: PlaybackEngine.setCurrentTime(t) called while Playing leaves
\* currentTime at t clamped into [0, duration], and a tick dt of clock time
\* later sets currentTime to that time plus dt times the speed, when that is
\* below the duration.
C26_SeekWhilePlayingContinues ==
    eng.isPlaying
    => \A t \in SeekTimes :
          LET m == engineSetCurrentTime(Machine, duration, t)
          IN  /\ m.t = Max(0, Min(duration, t))
              /\ \A dt \in TickDelays :
                    m.t + Covered(dt, eng.playbackSpeed) < duration
                    => animationLoop(m, duration, now + dt).t =
                          m.t + Covered(dt, eng.playbackSpeed)

\* C27: at most one tick callback is pending at any time, a tick callback is
\* pending only while the clock is Playing, and play() called while Playing
\* schedules nothing and changes nothing.
C27_OnePendingTick ==
    /\ Cardinality(pending) <= 1
    /\ pending # {} => eng.isPlaying
    /\ eng.isPlaying => play(Machine, duration, now) = Machine

\* C27 witness: playback was started after the clock instant 0, a tick has
\* run since and moved the timeline, and exactly one tick is pending.
C27_Witness ==
    /\ eng.isPlaying
    /\ eng.playbackStartTime > 0
    /\ now > eng.playbackStartTime
    /\ currentTime = Elapsed(eng, now)
    /\ pending = {eng.animationFrameId}

\* C28: an exportToWebM call with the range by default, whose end time is the
\* duration of the timeline, eventually sees currentTime at or beyond its end
\* time and finishes: the recorder is stopped and checkProgress is no longer
\* scheduled.
C28_WebMExportFinishes ==
    (webm.pc = "polling" /\ webm.endTime = duration)
        ~> (webm.pc = "done" /\ ~webm.recording)

\* An addKeyframe, updateKeyframe or deleteKeyframe call.
MutateStep ==
    \/ NextAdd
    \/ \E k \in KfIds, u \in Updates : UpdateKeyframe(k, u)
    \/ \E k \in KfIds : DeleteKeyframe(k)

\* C29: an addKeyframe, deleteKeyframe or updateKeyframe call made after an
\* exportTimelineData call leaves the keyframes and tracks contained in the
\* data that call returned as they were.
C29_ExportIsSnapshot ==
    [][(MutateStep /\ exported.taken)
        => /\ exported'.data.keyframes = exported.data.keyframes
           /\ exported'.data.tracks = exported.data.tracks]_vars

\* The times of one more keyframe, between and after the times of InterpTimes
\* and beyond the tolerance of them.
FurtherTimes == {3, 7}

\* C30: on a timeline whose keyframes are in strictly ascending time order,
\* for every keyframe K of an object, first, last or interior, whatever the
\* easing of the keyframe before it, getObjectStateAtTime(objectId, K.time)
\* returns K's properties: the same property names, each with K's value.  The
\* timelines looked at are those one more addKeyframe call makes of a
\* reachable one.
C30_ExactAtKeyframe ==
    \A t \in FurtherTimes, p \in InterpBags :
        LET K == addKeyframe(keyframes, tracks, "a", t, p).keyframes
            arr == K["a"]
        IN  StrictlyAscending(K)
            => \A i \in 1..Len(arr) :
                  LET r == getObjectStateAtTime(K, "a", arr[i].time)
                  IN  /\ ~r.null
                      /\ DOMAIN r.state = DOMAIN arr[i].properties
                      /\ \A prop \in DOMAIN arr[i].properties :
                            IsValue(r.state[prop], arr[i].properties[prop])

====
